---- MODULE Spec2Model ----
(***************************************************************************)
(* State-machine model of SQLChatbot.py (Dynamic SQL Chatbot).             *)
(*                                                                         *)
(* The Streamlit script is re-executed from top to bottom on every user    *)
(* interaction.  One action of the model is one such run of the script:    *)
(*   Connect   - the run in which connect_button is True,                  *)
(*   RunQuery  - the run in which run_query_button is True,                *)
(*   Rerun     - a run in which neither button is True (a field edited).   *)
(* st.session_state (db_connection, db_schema, connected) survives between *)
(* runs; everything rendered (messages, status line, SQL block) belongs to *)
(* one run only.                                                           *)
(*                                                                         *)
(* The database server and the completion service are the environment:     *)
(* the outcome of mysql.connector.connect, the tables the session sees,    *)
(* the place of a database error during introspection and the outcome of   *)
(* client.chat.completions.create are inputs chosen with \E.  Creating a   *)
(* cursor on the connection that was opened in the same run is taken to    *)
(* succeed.                                                                *)
(*                                                                         *)
(* Text that is inspected character by character (the question, the        *)
(* response of the completion service) is a sequence of atoms; an atom is  *)
(* one whitespace character or one run of non-whitespace characters.       *)
(* Python's None is NoConn for a connection and the record NoneText for    *)
(* an optional text.                                                       *)
(***************************************************************************)
EXTENDS Integers, Sequences, FiniteSets, TLC

VARIABLES
    db_connection,   \* st.session_state.db_connection: NoConn or a session handle
    db_schema,       \* st.session_state.db_schema: dict, as a sequence of entries in insertion order
    connected,       \* st.session_state.connected
    status,          \* the sidebar status line of the current run
    messages,        \* st.error / st.warning / st.success calls of the current run, in order
    rendered,        \* the SQL code block of the current run (NoneText when there is none)
    open_cursors,    \* cursors created by get_table_schema and not closed
    sessions_opened, \* connections returned by mysql.connector.connect so far
    remote_calls,    \* calls of client.chat.completions.create so far
    accepted_runs,   \* runs of the Run Query handler that reached its else branch so far
    last             \* the inputs and the outcome of the run that produced this state

vars == <<db_connection, db_schema, connected, status, messages, rendered,
          open_cursors, sessions_opened, remote_calls, accepted_runs, last>>

session_state == <<db_connection, db_schema, connected>>

-----------------------------------------------------------------------------
(* Bounds *)

MaxTables == 2      \* tables a session sees
MaxLen == 2         \* atoms of an enumerated response text
MaxSessions == 2    \* successful connections in one behaviour
MaxCalls == 2       \* remote completion calls in one behaviour

-----------------------------------------------------------------------------
(* Values *)

NoConn == 0

NoneText == [some |-> FALSE, text |-> <<>>]

SomeText(t) == [some |-> TRUE, text |-> t]

Whitespace == {" ", "\n"}

Atoms == Whitespace \cup {"SELECT"}

\* responses of the completion service: every text of up to MaxLen atoms, and two longer ones
Texts ==
    UNION {[1..n -> Atoms] : n \in 0..MaxLen}
    \cup {<<"SELECT", " ", "1;">>, <<"\n", " ", "SELECT", " ", "1;", " ", "\n">>}

Questions == {<<>>, <<"\n", " ">>, <<"count", " ", "rows">>}

ApiKeys == {"", "x"}

TableNames == {"orders", "customers", "nocols"}

\* what DESCRIBE returns for each table: (column name, column type) rows
Columns(table_name) ==
    CASE table_name = "orders" ->
            <<[col_name |-> "id", col_type |-> "int"],
              [col_name |-> "total", col_type |-> "decimal"]>>
      [] table_name = "customers" ->
            <<[col_name |-> "id", col_type |-> "int"],
              [col_name |-> "name", col_type |-> "varchar"]>>
      [] OTHER -> <<>>

\* what SHOW TABLES can return: table names without repetition
TableLists ==
    {t \in UNION {[1..n -> TableNames] : n \in 0..MaxTables} :
        \A i, j \in 1..Len(t) : i # j => t[i] # t[j]}

NoErr == -1

\* where a mysql.connector.Error is raised during introspection:
\* NoErr, 0 = at SHOW TABLES, k = at the DESCRIBE of the k-th table
ErrorPlaces(tables) == {NoErr} \cup (0..Len(tables))

RemoteOutcomes ==
    {[kind |-> "raises", content |-> <<>>], [kind |-> "no_content", content |-> <<>>]}
    \cup {[kind |-> "text", content |-> t] : t \in Texts}

NoOutcome == [kind |-> "not_called", content |-> <<>>]

Msg(level, text) == [level |-> level, text |-> text]

MsgConnectError == Msg("error", "Error connecting to database")
MsgSchemaError == Msg("error", "Error fetching database schema")
MsgConnectSuccess == Msg("success", "Successfully connected to database!")
MsgConnectFailed == Msg("error", "Failed to connect to database.")
MsgNotConnected == Msg("error", "Please connect to the database first in the sidebar.")
MsgNoQuestion == Msg("warning", "Please enter a question.")
MsgNoApiKey == Msg("warning", "Please enter your OpenAI API Key in the sidebar.")
MsgGenerateError == Msg("error", "Error generating SQL query with OpenAI")
MsgCouldNotGenerate == Msg("error", "Could not generate SQL query. Please check your OpenAI API key and question.")
MsgUncaught == Msg("exception", "uncaught exception")

-----------------------------------------------------------------------------
(* Helpers: Python built-ins *)

RECURSIVE lstrip(_)
lstrip(s) ==
    IF s # <<>> /\ Head(s) \in Whitespace THEN lstrip(Tail(s)) ELSE s

RECURSIVE rstrip(_)
rstrip(s) ==
    IF s # <<>> /\ s[Len(s)] \in Whitespace THEN rstrip(SubSeq(s, 1, Len(s) - 1)) ELSE s

strip_leading(s) == lstrip(s)

\* str.strip(): leading and trailing whitespace removed
strip(s) == rstrip(lstrip(s))

\* ", ".join(columns)
RECURSIVE join(_)
join(columns) ==
    IF columns = <<>> THEN ""
    ELSE IF Len(columns) = 1 THEN columns[1]
    ELSE columns[1] \o ", " \o join(Tail(columns))

Keys(d) == {d[i].table : i \in 1..Len(d)}

DictSet_rebind(d, k, v) == <<[table |-> k, columns |-> v]>>

\* d[k] = v on a dict that keeps insertion order
DictSet(d, k, v) ==
    IF k \in Keys(d)
    THEN [i \in 1..Len(d) |-> IF d[i].table = k THEN [table |-> k, columns |-> v] ELSE d[i]]
    ELSE Append(d, [table |-> k, columns |-> v])

-----------------------------------------------------------------------------
(* get_db_connection *)

get_db_connection_uncaught(attempt_ok, handle) ==
    IF attempt_ok
    THEN [conn |-> handle, messages |-> <<>>, raised |-> FALSE]
    ELSE [conn |-> NoConn, messages |-> <<>>, raised |-> TRUE]

get_db_connection(attempt_ok, handle) ==
    IF attempt_ok
    THEN [conn |-> handle, messages |-> <<>>, raised |-> FALSE]
    ELSE [conn |-> NoConn, messages |-> <<MsgConnectError>>, raised |-> FALSE]

-----------------------------------------------------------------------------
(* get_table_schema *)

\* the list built from the rows of one DESCRIBE
RECURSIVE describe_columns(_)
describe_columns(rows) ==
    IF rows = <<>> THEN <<>>
    ELSE <<rows[1].col_name \o " " \o rows[1].col_type>> \o describe_columns(Tail(rows))

\* the for loop over tables, from the i-th table on; stops where the error is raised
RECURSIVE describe_tables(_, _, _, _)
describe_tables(tables, i, errAt, schema_info) ==
    IF i > Len(tables) THEN [schema_info |-> schema_info, error |-> FALSE]
    ELSE IF errAt = i THEN [schema_info |-> schema_info, error |-> TRUE]
    ELSE describe_tables(tables, i + 1, errAt,
            DictSet(schema_info, tables[i], join(describe_columns(Columns(tables[i])))))

get_table_schema_discard(connection, tables, errAt) ==
    IF connection = NoConn
    THEN [schema_info |-> <<>>, opened |-> 0, closed |-> 0, messages |-> <<>>, raised |-> FALSE]
    ELSE LET body == IF errAt = 0
                     THEN [schema_info |-> <<>>, error |-> TRUE]
                     ELSE describe_tables(tables, 1, errAt, <<>>)
         IN  [schema_info |-> IF body.error THEN <<>> ELSE body.schema_info,
              opened |-> 1,
              closed |-> 1,
              messages |-> IF body.error THEN <<MsgSchemaError>> ELSE <<>>,
              raised |-> FALSE]

get_table_schema_leak(connection, tables, errAt) ==
    IF connection = NoConn
    THEN [schema_info |-> <<>>, opened |-> 0, closed |-> 0, messages |-> <<>>, raised |-> FALSE]
    ELSE LET body == IF errAt = 0
                     THEN [schema_info |-> <<>>, error |-> TRUE]
                     ELSE describe_tables(tables, 1, errAt, <<>>)
         IN  [schema_info |-> body.schema_info,
              opened |-> 1,
              closed |-> IF body.error THEN 0 ELSE 1,
              messages |-> IF body.error THEN <<MsgSchemaError>> ELSE <<>>,
              raised |-> FALSE]

get_table_schema(connection, tables, errAt) ==
    IF connection = NoConn
    THEN [schema_info |-> <<>>, opened |-> 0, closed |-> 0, messages |-> <<>>, raised |-> FALSE]
    ELSE LET body == IF errAt = 0
                     THEN [schema_info |-> <<>>, error |-> TRUE]
                     ELSE describe_tables(tables, 1, errAt, <<>>)
         IN  [schema_info |-> body.schema_info,
              opened |-> 1,
              closed |-> 1,
              messages |-> IF body.error THEN <<MsgSchemaError>> ELSE <<>>,
              raised |-> FALSE]

-----------------------------------------------------------------------------
(* generate_sql_query *)

generate_sql_query_uncaught(natural_language_question, schema, openai_api_key, outcome) ==
    IF openai_api_key = ""
    THEN [sql_query |-> NoneText, calls |-> 0, messages |-> <<MsgNoApiKey>>,
          prompt |-> <<>>, raised |-> FALSE]
    ELSE LET prompt == <<[db_schema |-> schema, question |-> natural_language_question]>>
         IN  IF outcome.kind = "text"
             THEN [sql_query |-> SomeText(strip(outcome.content)), calls |-> 1,
                   messages |-> <<>>, prompt |-> prompt, raised |-> FALSE]
             ELSE [sql_query |-> NoneText, calls |-> 1,
                   messages |-> <<>>, prompt |-> prompt, raised |-> TRUE]

generate_sql_query_retry(natural_language_question, schema, openai_api_key, outcome) ==
    IF openai_api_key = ""
    THEN [sql_query |-> NoneText, calls |-> 0, messages |-> <<MsgNoApiKey>>,
          prompt |-> <<>>, raised |-> FALSE]
    ELSE LET prompt == <<[db_schema |-> schema, question |-> natural_language_question]>>
         IN  IF outcome.kind = "text"
             THEN [sql_query |-> SomeText(strip(outcome.content)), calls |-> 1,
                   messages |-> <<>>, prompt |-> prompt, raised |-> FALSE]
             ELSE [sql_query |-> NoneText, calls |-> 2,
                   messages |-> <<MsgGenerateError>>, prompt |-> prompt, raised |-> FALSE]

generate_sql_query(natural_language_question, schema, openai_api_key, outcome) ==
    IF openai_api_key = ""
    THEN [sql_query |-> NoneText, calls |-> 0, messages |-> <<MsgNoApiKey>>,
          prompt |-> <<>>, raised |-> FALSE]
    ELSE LET prompt == <<[db_schema |-> schema, question |-> natural_language_question]>>
         IN  IF outcome.kind = "text"
             THEN [sql_query |-> SomeText(strip(outcome.content)), calls |-> 1,
                   messages |-> <<>>, prompt |-> prompt, raised |-> FALSE]
             ELSE [sql_query |-> NoneText, calls |-> 1,
                   messages |-> <<MsgGenerateError>>, prompt |-> prompt, raised |-> FALSE]

-----------------------------------------------------------------------------
(* The script *)

\* the sidebar status line
status_line(is_connected) == IF is_connected THEN "Connected to" ELSE "Please connect to a database to proceed."

run_query_check_no_question_test(is_connected, natural_language_question, openai_api_key) ==
    IF ~is_connected THEN "not_connected"
    ELSE IF openai_api_key = "" THEN "no_api_key"
    ELSE "generate"

run_query_check_question_first(is_connected, natural_language_question, openai_api_key) ==
    IF strip(natural_language_question) = <<>> THEN "no_question"
    ELSE IF ~is_connected THEN "not_connected"
    ELSE IF openai_api_key = "" THEN "no_api_key"
    ELSE "generate"

\* the if / elif chain of the Run Query handler
run_query_check(is_connected, natural_language_question, openai_api_key) ==
    IF ~is_connected THEN "not_connected"
    ELSE IF strip(natural_language_question) = <<>> THEN "no_question"
    ELSE IF openai_api_key = "" THEN "no_api_key"
    ELSE "generate"

\* `if sql_query:`
truthy(sql_query) == sql_query.some /\ sql_query.text # <<>>

NoLast ==
    [action |-> "init", was_connected |-> FALSE, conn_ok |-> FALSE, tables |-> <<>>,
     errAt |-> NoErr, question |-> <<>>, key |-> "", check |-> "", outcome |-> NoOutcome,
     conn |-> NoConn, calls |-> 0, opened |-> 0, closed |-> 0, raised |-> FALSE]

Init ==
    /\ db_connection = NoConn
    /\ db_schema = <<>>
    /\ connected = FALSE
    /\ status = status_line(FALSE)
    /\ messages = <<>>
    /\ rendered = NoneText
    /\ open_cursors = 0
    /\ sessions_opened = 0
    /\ remote_calls = 0
    /\ accepted_runs = 0
    /\ last = NoLast

connect_handler_reset(state, attempt_ok, handle, tables, errAt) ==
    LET c == get_db_connection(attempt_ok, handle)
        s == get_table_schema(c.conn, tables, errAt)
    IN  IF c.conn # NoConn
        THEN [db_connection |-> c.conn, db_schema |-> s.schema_info, connected |-> TRUE,
              messages |-> c.messages \o s.messages \o <<MsgConnectSuccess>>,
              conn |-> c.conn,
              opened |-> s.opened, closed |-> s.closed, raised |-> FALSE]
        ELSE [db_connection |-> NoConn, db_schema |-> <<>>, connected |-> FALSE,
              messages |-> c.messages \o <<MsgConnectFailed>>, conn |-> c.conn,
              opened |-> 0, closed |-> 0, raised |-> FALSE]

\* the new session state and the output of the connect_button block
connect_handler(state, attempt_ok, handle, tables, errAt) ==
    LET c == get_db_connection(attempt_ok, handle)
        s == get_table_schema(c.conn, tables, errAt)
    IN  IF c.raised
        THEN [db_connection |-> state[1], db_schema |-> state[2], connected |-> state[3],
              messages |-> c.messages \o <<MsgUncaught>>, conn |-> c.conn,
              opened |-> 0, closed |-> 0, raised |-> TRUE]
        ELSE IF c.conn # NoConn
        THEN IF s.raised
             THEN [db_connection |-> c.conn, db_schema |-> state[2], connected |-> state[3],
                   messages |-> c.messages \o s.messages \o <<MsgUncaught>>, conn |-> c.conn,
                   opened |-> s.opened, closed |-> s.closed, raised |-> TRUE]
             ELSE [db_connection |-> c.conn, db_schema |-> s.schema_info, connected |-> TRUE,
                   messages |-> c.messages \o s.messages \o <<MsgConnectSuccess>>,
                   conn |-> c.conn,
                   opened |-> s.opened, closed |-> s.closed, raised |-> FALSE]
        ELSE [db_connection |-> state[1], db_schema |-> state[2], connected |-> FALSE,
              messages |-> c.messages \o <<MsgConnectFailed>>, conn |-> c.conn,
              opened |-> 0, closed |-> 0, raised |-> FALSE]

\* the output of the run_query_button block
run_query_handler(state, question, key, outcome) ==
    LET check == run_query_check(state[3], question, key)
        g == generate_sql_query(question, state[2], key, outcome)
    IN  IF check = "not_connected"
        THEN [check |-> check, messages |-> <<MsgNotConnected>>, rendered |-> NoneText,
              calls |-> 0, raised |-> FALSE]
        ELSE IF check = "no_question"
        THEN [check |-> check, messages |-> <<MsgNoQuestion>>, rendered |-> NoneText,
              calls |-> 0, raised |-> FALSE]
        ELSE IF check = "no_api_key"
        THEN [check |-> check, messages |-> <<MsgNoApiKey>>, rendered |-> NoneText,
              calls |-> 0, raised |-> FALSE]
        ELSE IF g.raised
        THEN [check |-> check, messages |-> g.messages \o <<MsgUncaught>>,
              rendered |-> NoneText, calls |-> g.calls, raised |-> TRUE]
        ELSE IF truthy(g.sql_query)
        THEN [check |-> check, messages |-> g.messages, rendered |-> g.sql_query,
              calls |-> g.calls, raised |-> FALSE]
        ELSE [check |-> check, messages |-> g.messages \o <<MsgCouldNotGenerate>>,
              rendered |-> NoneText, calls |-> g.calls, raised |-> FALSE]

Connect ==
    \E attempt_ok \in BOOLEAN, tables \in TableLists :
    \E errAt \in ErrorPlaces(tables) :
        LET h == connect_handler(session_state, attempt_ok, sessions_opened + 1, tables, errAt)
        IN  /\ attempt_ok => sessions_opened < MaxSessions
            /\ ~attempt_ok => (tables = <<>> /\ errAt = NoErr)
            /\ db_connection' = h.db_connection
            /\ db_schema' = h.db_schema
            /\ connected' = h.connected
            /\ status' = status_line(h.connected)
            /\ messages' = h.messages
            /\ rendered' = NoneText
            /\ open_cursors' = open_cursors + h.opened - h.closed
            /\ sessions_opened' = IF attempt_ok THEN sessions_opened + 1 ELSE sessions_opened
            /\ last' = [NoLast EXCEPT !.action = "connect", !.was_connected = connected,
                                      !.conn_ok = attempt_ok, !.tables = tables,
                                      !.errAt = errAt, !.conn = h.conn, !.opened = h.opened,
                                      !.closed = h.closed, !.raised = h.raised]
            /\ UNCHANGED <<remote_calls, accepted_runs>>

RunQuery ==
    \E question \in Questions, key \in ApiKeys :
    \E outcome \in (IF run_query_check(connected, question, key) = "generate"
                    THEN RemoteOutcomes ELSE {NoOutcome}) :
        LET h == run_query_handler(session_state, question, key, outcome)
        IN  /\ remote_calls < MaxCalls
            /\ status' = status_line(connected)
            /\ messages' = h.messages
            /\ rendered' = h.rendered
            /\ remote_calls' = remote_calls + h.calls
            /\ accepted_runs' = accepted_runs + (IF h.check = "generate" THEN 1 ELSE 0)
            /\ last' = [NoLast EXCEPT !.action = "run", !.was_connected = connected,
                                      !.question = question, !.key = key,
                                      !.check = h.check, !.calls = h.calls,
                                      !.outcome = outcome, !.raised = h.raised]
            /\ UNCHANGED <<db_connection, db_schema, connected, open_cursors, sessions_opened>>

Rerun ==
    /\ status' = status_line(connected)
    /\ messages' = <<>>
    /\ rendered' = NoneText
    /\ last' = [NoLast EXCEPT !.action = "rerun", !.was_connected = connected]
    /\ UNCHANGED <<db_connection, db_schema, connected, open_cursors, sessions_opened,
                   remote_calls, accepted_runs>>

Next == Connect \/ RunQuery \/ Rerun

Spec == Init /\ [][Next]_vars

-----------------------------------------------------------------------------
(* Vocabulary of the properties, stated without the operators of the model *)

OnlyWhitespace(t) == \A i \in 1..Len(t) : t[i] \in Whitespace

\* s is t without its leading and trailing whitespace
IsTrimOf(s, t) ==
    \E i \in 1..(Len(t) + 1), j \in 0..Len(t) :
        /\ \A k \in 1..(i - 1) : t[k] \in Whitespace
        /\ \A k \in (j + 1)..Len(t) : t[k] \in Whitespace
        /\ s = [k \in 1..(j - i + 1) |-> t[i + k - 1]]
        /\ s # <<>> => (s[1] \notin Whitespace /\ s[Len(s)] \notin Whitespace)

Range(f) == {f[i] : i \in 1..Len(f)}

\* the entry of a table whose DESCRIBE rows are Columns(table)
ColumnText(c) == c.col_name \o " " \o c.col_type

EntryOf(table) ==
    LET rows == Columns(table)
    IN  [table |-> table,
         columns |-> IF Len(rows) = 0 THEN ""
                     ELSE IF Len(rows) = 1 THEN ColumnText(rows[1])
                     ELSE ColumnText(rows[1]) \o ", " \o ColumnText(rows[2])]

AfterConnect == last.action = "connect"
AfterRun == last.action = "run"

-----------------------------------------------------------------------------
(* C1: a Run Query run makes no remote completion call when the session is  *)
(* not connected, the question is empty or only whitespace, or the API key  *)
(* is empty; a remote call is made only when connected and both are         *)
(* non-empty.                                                               *)
C1_NoCallUnlessPreconditions ==
    [][ /\ (last'.action = "run" /\ (~connected \/ OnlyWhitespace(last'.question) \/ last'.key = ""))
            => (remote_calls' = remote_calls /\ last'.calls = 0)
        /\ remote_calls' # remote_calls
            => (last'.action = "run" /\ connected /\ ~OnlyWhitespace(last'.question) /\ last'.key # "")
      ]_vars

C1_Witness ==
    /\ AfterRun /\ last.was_connected /\ ~OnlyWhitespace(last.question) /\ last.key = ""
    /\ last.calls = 0 /\ remote_calls = 1

(* C2: a Connect whose connection attempt fails: get_db_connection returns  *)
(* None, nothing is raised, and connected is false afterwards, whatever it  *)
(* was before.                                                              *)
C2_FailedConnectClearsFlag ==
    (AfterConnect /\ ~last.conn_ok) =>
        (last.conn = NoConn /\ ~last.raised /\ ~connected /\ MsgConnectError \in Range(messages))

C2_Witness ==
    AfterConnect /\ ~last.conn_ok /\ last.was_connected /\ ~connected

(* C3 as stated: after every Connect that ends with connected = TRUE the    *)
(* keys of the schema mapping are exactly the tables visible to the         *)
(* session, and each table with a column has a non-empty description.       *)
C3_Original ==
    (AfterConnect /\ connected) =>
        /\ Keys(db_schema) = Range(last.tables)
        /\ \A i \in 1..Len(db_schema) :
              Columns(db_schema[i].table) # <<>> => db_schema[i].columns # ""

(* C3 amended: after a Connect that ends with connected = TRUE and whose    *)
(* introspection raised no database error the keys are exactly the visible  *)
(* tables; after one whose introspection raised an error they are a subset  *)
(* of the visible tables; in both cases each stored table with a column has *)
(* a non-empty description.                                                 *)
C3_ExactKeysWhenNoError ==
    (AfterConnect /\ connected) =>
        /\ last.errAt = NoErr => Keys(db_schema) = Range(last.tables)
        /\ Keys(db_schema) \subseteq Range(last.tables)
        /\ Len(db_schema) = Cardinality(Keys(db_schema))
        /\ \A i \in 1..Len(db_schema) :
              Columns(db_schema[i].table) # <<>> => db_schema[i].columns # ""

C3_Witness ==
    /\ AfterConnect /\ connected /\ last.errAt = NoErr
    /\ Len(last.tables) = 2 /\ Keys(db_schema) = {"orders", "customers"}

(* C4: a database error at SHOW TABLES or at the k-th DESCRIBE: the error   *)
(* is reported, nothing is raised, the stored mapping is exactly the        *)
(* entries of the tables described before the error, in discovery order,    *)
(* and the Connect still stores the new handle and sets connected = TRUE.   *)
C4_PartialSchemaAccepted ==
    (AfterConnect /\ last.conn_ok /\ last.errAt # NoErr) =>
        /\ db_schema = [i \in 1..(IF last.errAt = 0 THEN 0 ELSE last.errAt - 1)
                            |-> EntryOf(last.tables[i])]
        /\ MsgSchemaError \in Range(messages)
        /\ ~last.raised
        /\ connected
        /\ db_connection = last.conn /\ last.conn # NoConn

C4_Witness ==
    /\ AfterConnect /\ last.conn_ok /\ last.errAt = 2 /\ last.was_connected
    /\ Len(db_schema) = 1 /\ connected

(* C5: every cursor get_table_schema opens is closed before it returns, on  *)
(* every exit path, so no introspection cursor is ever left open; with an   *)
(* absent session no cursor is opened and the mapping is empty.             *)
C5_CursorsClosed ==
    /\ open_cursors = 0
    /\ AfterConnect => (last.opened = last.closed /\ last.opened = (IF last.conn_ok THEN 1 ELSE 0))
    /\ \A t \in TableLists : \A e \in ErrorPlaces(t) :
          LET r == get_table_schema(NoConn, t, e)
          IN  r.schema_info = <<>> /\ r.opened = 0 /\ ~r.raised /\ r.messages = <<>>

C5_Witness ==
    /\ AfterConnect /\ last.conn_ok /\ last.errAt = 1
    /\ last.opened = 1 /\ last.closed = 1 /\ open_cursors = 0 /\ sessions_opened = 2

(* C6: Run Query tests connected, then the question, then the API key, and  *)
(* shows exactly one message, that of the first failing test.               *)
C6_FirstFailingCheckOnly ==
    AfterRun =>
        /\ ~last.was_connected => messages = <<MsgNotConnected>>
        /\ (last.was_connected /\ OnlyWhitespace(last.question)) => messages = <<MsgNoQuestion>>
        /\ (last.was_connected /\ ~OnlyWhitespace(last.question) /\ last.key = "")
              => messages = <<MsgNoApiKey>>
        /\ MsgNotConnected \in Range(messages) => ~last.was_connected
        /\ MsgNoQuestion \in Range(messages)
              => (last.was_connected /\ OnlyWhitespace(last.question))
        /\ MsgNoApiKey \in Range(messages)
              => (last.was_connected /\ ~OnlyWhitespace(last.question) /\ last.key = "")

C6_Witness ==
    /\ AfterRun /\ ~last.was_connected /\ OnlyWhitespace(last.question) /\ last.key = ""
    /\ messages = <<MsgNotConnected>>

(* C7: when the preconditions pass and the remote call returns a text, the  *)
(* SQL block is that text with its leading and trailing whitespace removed  *)
(* and nothing else changed, and it is rendered exactly when the trimmed    *)
(* text is non-empty; "SELECT 1;" is rendered as "SELECT 1;".               *)
C7_RenderedIsTrimmedResponse ==
    (AfterRun /\ last.check = "generate" /\ last.outcome.kind = "text") =>
        /\ rendered.some <=> ~OnlyWhitespace(last.outcome.content)
        /\ rendered.some => IsTrimOf(rendered.text, last.outcome.content)
        /\ last.outcome.content = <<"SELECT", " ", "1;">>
              => rendered = SomeText(<<"SELECT", " ", "1;">>)

C7_Witness ==
    /\ AfterRun /\ last.check = "generate"
    /\ last.outcome = [kind |-> "text", content |-> <<"\n", " ", "SELECT", " ", "1;", " ", "\n">>]
    /\ rendered = SomeText(<<"SELECT", " ", "1;">>)

(* C8: when the remote call raises, the error is reported, nothing is       *)
(* raised, the 'could not generate' error is shown and no SQL block is      *)
(* rendered; the same error and no SQL block when the generated text is     *)
(* empty after trimming.                                                    *)
C8_RemoteFailureShowsError ==
    (AfterRun /\ last.check = "generate") =>
        /\ last.outcome.kind = "raises"
              => /\ messages = <<MsgGenerateError, MsgCouldNotGenerate>>
                 /\ ~last.raised
                 /\ ~rendered.some
        /\ (last.outcome.kind = "text" /\ OnlyWhitespace(last.outcome.content))
              => /\ messages = <<MsgCouldNotGenerate>>
                 /\ ~last.raised
                 /\ ~rendered.some

C8_Witness ==
    /\ AfterRun /\ last.check = "generate" /\ last.outcome.kind = "raises"
    /\ last.calls = 1 /\ messages = <<MsgGenerateError, MsgCouldNotGenerate>>

(* C9: each Run Query that passes the preconditions makes exactly one       *)
(* remote call, whether it succeeds or fails; the number of remote calls    *)
(* always equals the number of Run Query runs that passed the               *)
(* preconditions.                                                           *)
C9_OneCallPerAcceptedRun ==
    /\ remote_calls = accepted_runs
    /\ AfterRun => last.calls = (IF last.check = "generate" THEN 1 ELSE 0)

C9_Witness ==
    /\ AfterRun /\ last.outcome.kind = "raises" /\ last.question = <<"count", " ", "rows">>
    /\ remote_calls = 2 /\ accepted_runs = 2

====
